---- MODULE Spec2Model ----
(***************************************************************************)
(* Model of atproto/src/DID.rs: the validating constructor Did::try_create *)
(* and the accessors Did::method and Did::identifier.                      *)
(*                                                                         *)
(* A Rust String is modelled as the sequence of its Unicode scalar values  *)
(* (chars).  Every char has a UTF-8 width, and the code's len() and        *)
(* range-index operations work on BYTE offsets: they are modelled by       *)
(* ByteLen / IsCharBoundary / ByteSlice below, which compute the byte      *)
(* offsets from the widths.  An index that is not on a char boundary       *)
(* panics, as str indexing does.                                           *)
(***************************************************************************)
EXTENDS Integers, Sequences, FiniteSets, TLC

(* ----------------------------- bounds --------------------------------- *)

\* longest identifier body (chars after the 8th) that is enumerated in full
MaxBody == 2

(* --------------------------- characters ------------------------------- *)

AsciiLower == {"a","b","c","d","e","f","g","h","i","j","k","l","m",
               "n","o","p","q","r","s","t","u","v","w","x","y","z"}
AsciiUpper == {"A","B","C","D","E","F","G","H","I","J","K","L","M",
               "N","O","P","Q","R","S","T","U","V","W","X","Y","Z"}
AsciiDigit == {"0","1","2","3","4","5","6","7","8","9"}
AsciiOther == {".", "_", ":", "-", "#", " ", "/"}

\* chars outside ASCII, named by code point: e-acute, euro sign, an emoji
NonAscii == {"U+00E9", "U+20AC", "U+1F600"}

\* char::is_ascii_alphanumeric
is_ascii_alphanumeric(c) == c \in AsciiLower \cup AsciiUpper \cup AsciiDigit

\* number of bytes of the UTF-8 encoding of a char
len_utf8(c) ==
    CASE c = "U+00E9"  -> 2
      [] c = "U+20AC"  -> 3
      [] c = "U+1F600" -> 4
      [] OTHER         -> 1

(* ----------------------------- strings -------------------------------- *)

\* byte offset at which the char after the first k chars of s starts
RECURSIVE ByteOffset(_, _)
ByteOffset(s, k) ==
    IF k = 0 THEN 0 ELSE ByteOffset(s, k - 1) + len_utf8(s[k])

\* String::len / str::len: the length in bytes
ByteLen(s) == ByteOffset(s, Len(s))

\* str::is_char_boundary
IsCharBoundary(s, i) == \E k \in 0..Len(s) : ByteOffset(s, k) = i

\* number of chars of s that start before byte offset i (i a char boundary)
CharsBefore(s, i) == CHOOSE k \in 0..Len(s) : ByteOffset(s, k) = i

\* does &s[lo..hi] panic?  (hi past the end or an offset inside a char)
SlicePanics(s, lo, hi) ==
    \/ lo > hi
    \/ hi > ByteLen(s)
    \/ ~IsCharBoundary(s, lo)
    \/ ~IsCharBoundary(s, hi)

\* &s[lo..hi] where it does not panic
ByteSlice(s, lo, hi) == SubSeq(s, CharsBefore(s, lo) + 1, CharsBefore(s, hi))

\* &s[lo..]
ByteSliceFrom(s, lo) == ByteSlice(s, lo, ByteLen(s))

\* the string literals of the source
LitDid == <<"d","i","d",":">>
LitWebColon == <<"w","e","b",":">>
LitPlcColon == <<"p","l","c",":">>
LitWeb == <<"w","e","b">>
LitPlc == <<"p","l","c">>

(* ---------------------------- try_create ------------------------------ *)

\* values of Result<Did, DidValidationError>, plus the panic outcome
Err(kind, found) == [kind |-> kind, found |-> found, inner |-> <<>>]
\* variant: the string is case-folded before it is wrapped
to_ascii_lowercase(c) ==
    CASE c = "A" -> "a" [] c = "B" -> "b" [] c = "C" -> "c" [] c = "D" -> "d"
      [] c = "E" -> "e" [] c = "F" -> "f" [] c = "G" -> "g" [] c = "H" -> "h"
      [] c = "I" -> "i" [] c = "J" -> "j" [] c = "K" -> "k" [] c = "L" -> "l"
      [] c = "M" -> "m" [] c = "N" -> "n" [] c = "O" -> "o" [] c = "P" -> "p"
      [] c = "Q" -> "q" [] c = "R" -> "r" [] c = "S" -> "s" [] c = "T" -> "t"
      [] c = "U" -> "u" [] c = "V" -> "v" [] c = "W" -> "w" [] c = "X" -> "x"
      [] c = "Y" -> "y" [] c = "Z" -> "z" [] OTHER -> c
Ok_CaseFolded(id) ==
    [kind |-> "Ok", found |-> <<>>,
     inner |-> [i \in 1..Len(id) |-> to_ascii_lowercase(id[i])]]
Ok(id) == [kind |-> "Ok", found |-> <<>>, inner |-> id]
Panic == [kind |-> "Panic", found |-> <<>>, inner |-> <<>>]
\* a check that lets the candidate through to the next one
Pass == [kind |-> "Pass", found |-> <<>>, inner |-> <<>>]
\* no call made yet
NoResult == [kind |-> "None", found |-> <<>>, inner |-> <<>>]

\* variant: the closure lets every ASCII char through
BodyCharOk_AnyAscii(c) == c \notin NonAscii

\* the closure of the body check
BodyCharOk(c) ==
    is_ascii_alphanumeric(c) \/ c = "." \/ c = "_" \/ c = ":" \/ c = "-"

\* variant: the length bound is off by one
TooShortCheck_OffByOne(id) == ByteLen(id) <= 9

\* id.len() <= 8
TooShortCheck(id) == ByteLen(id) <= 8

\* &id[0..4] != "did:"
PrefixCheck(id) ==
    IF SlicePanics(id, 0, 4) THEN Panic
    ELSE IF ByteSlice(id, 0, 4) # LitDid
         THEN Err("InvalidPrefix", ByteSlice(id, 0, 4))
         ELSE Pass

\* variant: a third method token is let through
MethodCheck_AlsoKey(id) ==
    IF SlicePanics(id, 4, 8) THEN Panic
    ELSE IF /\ ByteSlice(id, 4, 8) # LitWebColon
            /\ ByteSlice(id, 4, 8) # LitPlcColon
            /\ ByteSlice(id, 4, 8) # <<"k","e","y",":">>
         THEN Err("InvalidMethod", ByteSlice(id, 4, 8))
         ELSE Pass

\* &id[4..8] != "web:" && &id[4..8] != "plc:"
MethodCheck(id) ==
    IF SlicePanics(id, 4, 8) THEN Panic
    ELSE IF ByteSlice(id, 4, 8) # LitWebColon /\ ByteSlice(id, 4, 8) # LitPlcColon
         THEN Err("InvalidMethod", ByteSlice(id, 4, 8))
         ELSE Pass

\* variant: the last char is not looked at
BodyCheck_NoLastCharTest(id) ==
    IF SlicePanics(id, 8, ByteLen(id)) THEN Panic
    ELSE IF ~(\A i \in 1..Len(ByteSliceFrom(id, 8)) :
                 BodyCharOk(ByteSliceFrom(id, 8)[i]))
         THEN Err("InvalidIdentifier", ByteSliceFrom(id, 8))
         ELSE Pass

\* !id[8..].chars().all(..) || id.chars().last() == Some(':')
BodyCheck(id) ==
    IF SlicePanics(id, 8, ByteLen(id)) THEN Panic
    ELSE IF \/ ~(\A i \in 1..Len(ByteSliceFrom(id, 8)) :
                    BodyCharOk(ByteSliceFrom(id, 8)[i]))
            \/ (Len(id) > 0 /\ id[Len(id)] = ":")
         THEN Err("InvalidIdentifier", ByteSliceFrom(id, 8))
         ELSE Pass

try_create(id) ==
    IF TooShortCheck(id) THEN Err("TooShort", <<>>)
    ELSE IF PrefixCheck(id) # Pass THEN PrefixCheck(id)
    ELSE IF MethodCheck(id) # Pass THEN MethodCheck(id)
    ELSE IF BodyCheck(id) # Pass THEN BodyCheck(id)
    ELSE Ok(id)

(* ------------------------ method / identifier ------------------------- *)

\* "Web", "Plc", or "Panic" for the fallback arm and for a panicking slice
method(self) ==
    IF SlicePanics(self.inner, 4, 7) THEN "Panic"
    ELSE IF ByteSlice(self.inner, 4, 7) = LitWeb THEN "Web"
    ELSE IF ByteSlice(self.inner, 4, 7) = LitPlc THEN "Plc"
    ELSE "Panic"

\* variant: the slice starts one byte early, at the colon
identifier_FromColon(self) ==
    IF SlicePanics(self.inner, 7, ByteLen(self.inner))
    THEN [kind |-> "Panic", str |-> <<>>]
    ELSE [kind |-> "Ok", str |-> ByteSliceFrom(self.inner, 7)]

\* the returned &str, or the panic of the slice
identifier(self) ==
    IF SlicePanics(self.inner, 8, ByteLen(self.inner))
    THEN [kind |-> "Panic", str |-> <<>>]
    ELSE [kind |-> "Ok", str |-> ByteSliceFrom(self.inner, 8)]

NoIdentifier == [kind |-> "None", str |-> <<>>]

(* --------------------------- the callers' inputs ---------------------- *)

\* all strings of at most n chars over the alphabet A
RECURSIVE StringsUpTo(_, _)
StringsUpTo(A, n) ==
    IF n = 0 THEN {<<>>}
    ELSE StringsUpTo(A, n - 1) \cup
         {Append(s, c) : s \in StringsUpTo(A, n - 1), c \in A}

\* the first four chars or so of a candidate: right, wrong, and with a
\* multi-byte char before, across and after byte offset 4
PrefixTokens ==
    { LitDid,
      <<"D","I","D",":">>,
      <<"U+00E9","i","d",":">>,
      <<"d","i","d","U+00E9">>,
      <<"d","i","U+20AC",":">> }

\* the method token: right, wrong, and with a multi-byte char inside
MethodTokens ==
    { LitWebColon,
      LitPlcColon,
      <<"k","e","y",":">>,
      <<"m","e","t","h">>,
      <<"w","e","b","#">>,
      <<"w","U+00E9","b",":">>,
      <<"w","e","b","U+1F600">> }

\* one char of every class the body check tells apart
BodyAlphabet == {"a", "Z", "7", ".", "_", ":", "-", "#", "U+00E9"}

Bodies == StringsUpTo(BodyAlphabet, MaxBody)

Heads == {p \o m : p \in PrefixTokens, m \in MethodTokens}

\* the strings of the unit tests and of the spec's scenarios
Scenarios ==
    { LitDid \o LitWebColon \o <<"l","o","c","a","l","h","o","s","t">>,
      LitDid \o LitPlcColon \o <<"z","7","2","i","7","h","d","y","n","m","k","6",
                                 "r","2","2","z","2","7","h","6","t","v","u","r">>,
      LitDid \o <<"k","e","y",":">> \o <<"z","Q","3","s","h","Z","c","2","Q","z","A","p","p","2","o","y",
                                         "m","G","v","Q","b","z","P","8","e","K","h","e","V","s","h","B",
                                         "H","b","U","4","Z","Y","j","e","X","q","w","S","K","E","n","6",
                                         "N">>,
      LitDid \o <<"m","e","t","h","o","d",":","v","a","l","#","t","w","o">>,
      LitDid \o LitWebColon,
      LitDid \o LitWebColon \o <<"a","b","c",":">> }

Candidates ==
    {h \o b : h \in Heads, b \in Bodies}
    \cup {SubSeq(h, 1, n) : h \in Heads, n \in 0..8}
    \cup Scenarios

(* ------------------------------ state --------------------------------- *)

VARIABLES
    pc,               \* "idle", "returned" (try_create returned), "aborted"
    id,               \* the argument of the last try_create call
    result,           \* what that call returned
    dids,             \* the Did values that exist
    method_ret,       \* what the last method() call returned, or "None"
    identifier_ret    \* what the last identifier() call returned

vars == <<pc, id, result, dids, method_ret, identifier_ret>>

Init ==
    /\ pc = "idle"
    /\ id = <<>>
    /\ result = NoResult
    /\ dids = {}
    /\ method_ret = "None"
    /\ identifier_ret = NoIdentifier

\* Did::try_create(c), for any candidate c
TryCreate ==
    /\ pc = "idle"
    /\ \E c \in Candidates :
          /\ id' = c
          /\ result' = try_create(c)
    /\ pc' = IF result'.kind = "Panic" THEN "aborted" ELSE "returned"
    /\ dids' = IF result'.kind = "Ok" THEN {[inner |-> result'.inner]} ELSE {}
    /\ UNCHANGED <<method_ret, identifier_ret>>

\* did.method() on a Did that exists
Method ==
    /\ pc = "returned"
    /\ \E d \in dids :
          /\ method_ret' = method(d)
          /\ pc' = IF method(d) = "Panic" THEN "aborted" ELSE pc
    /\ UNCHANGED <<id, result, dids, identifier_ret>>

\* did.identifier() on a Did that exists
Identifier ==
    /\ pc = "returned"
    /\ \E d \in dids :
          /\ identifier_ret' = identifier(d)
          /\ pc' = IF identifier(d).kind = "Panic" THEN "aborted" ELSE pc
    /\ UNCHANGED <<id, result, dids, method_ret>>

\* the caller lets the returned value go out of scope and may call again
Drop ==
    /\ pc = "returned"
    /\ pc' = "idle"
    /\ id' = <<>>
    /\ result' = NoResult
    /\ dids' = {}
    /\ method_ret' = "None"
    /\ identifier_ret' = NoIdentifier

Next ==
    \/ TryCreate
    \/ Method
    \/ Identifier
    \/ Drop

Spec == Init /\ [][Next]_vars

(* ------------------- the grammar, in characters ----------------------- *)

\* chars a..b of s (1-based, inclusive), as far as s goes
CharsFromTo(s, a, b) == SubSeq(s, a, IF b < Len(s) THEN b ELSE Len(s))

\* chars a.. of s
CharsFrom(s, a) == SubSeq(s, a, Len(s))

AllowedBodyChars ==
    AsciiLower \cup AsciiUpper \cup AsciiDigit \cup {".", "_", ":", "-"}

LengthOk(s) == Len(s) >= 9
PrefixOk(s) == CharsFromTo(s, 1, 4) = <<"d","i","d",":">>
MethodOk(s) == CharsFromTo(s, 5, 8) \in {<<"w","e","b",":">>, <<"p","l","c",":">>}
BodyCharsOk(s) == \A i \in 9..Len(s) : s[i] \in AllowedBodyChars
NoTrailingColon(s) == Len(s) = 0 \/ s[Len(s)] # ":"
BodyOk(s) == BodyCharsOk(s) /\ NoTrailingColon(s)

WellFormed(s) ==
    LengthOk(s) /\ PrefixOk(s) /\ MethodOk(s) /\ BodyOk(s)

\* the error of the first failing check, in the order of the document
FirstFailing(s) ==
    IF ~LengthOk(s) THEN "TooShort"
    ELSE IF ~PrefixOk(s) THEN "InvalidPrefix"
    ELSE IF ~MethodOk(s) THEN "InvalidMethod"
    ELSE IF ~BodyOk(s) THEN "InvalidIdentifier"
    ELSE "Ok"

FailedChecks(s) ==
    {k \in {"TooShort", "InvalidPrefix", "InvalidMethod", "InvalidIdentifier"} :
        \/ k = "TooShort" /\ ~LengthOk(s)
        \/ k = "InvalidPrefix" /\ ~PrefixOk(s)
        \/ k = "InvalidMethod" /\ ~MethodOk(s)
        \/ k = "InvalidIdentifier" /\ ~BodyOk(s)}

Called == pc # "idle"
IsAscii(s) == \A i \in 1..Len(s) : s[i] \notin NonAscii

(* ------------------------------ claims -------------------------------- *)

\* C1: every Did that exists wraps a string of the grammar (at least 9
\* chars, "did:", then "web:" or "plc:", then allowed chars only, no
\* trailing ':'), and method() and identifier() leave the wrapped string
\* as it is.
C1_TypeInvariant ==
    [][/\ \A d \in dids' : WellFormed(d.inner)
       /\ (pc = "returned" /\ pc' # "idle") => dids' = dids]_vars

C1_Witness ==
    /\ dids # {}
    /\ method_ret # "None"
    /\ identifier_ret.kind # "None"
    /\ \E d \in dids : Len(d.inner) > 9

\* C2 (as stated): an input failing more than one check gets the error of
\* the first failing check in the order length, prefix, method, body.
C2_FirstFailingWins ==
    (Called /\ Cardinality(FailedChecks(id)) > 1)
        => result.kind = FirstFailing(id)

C4_LengthBoundary ==
    Called =>
        /\ (Len(id) <= 8 => result.kind = "TooShort")
        /\ (Len(id) = 9 /\ PrefixOk(id) /\ MethodOk(id)
              /\ id[9] \in AllowedBodyChars \ {":"}
                => result.kind = "Ok")

\* C5: an accepted string is wrapped exactly as given: the Ok value equals
\* Did{inner: s}.
C5_RoundTrip ==
    (Called /\ result.kind = "Ok")
        => (result.inner = id /\ dids = {[inner |-> id]})

C5_Witness ==
    /\ result.kind = "Ok"
    /\ \E i \in 9..Len(id) : id[i] \in AsciiUpper
    /\ \E i \in 9..Len(id) : id[i] \in {".", "_", "-", ":"}

\* C6: identifier() returns the suffix that starts at the 9th char, and
\* method() returns Web iff chars 5-8 are "web:" and Plc iff "plc:".
C6_AccessorsConsistent ==
    \A d \in dids :
        /\ identifier_ret.kind # "None"
              => (identifier_ret.kind = "Ok" /\ identifier_ret.str = CharsFrom(id, 9))
        /\ method_ret # "None"
              => /\ method_ret = "Web" <=> CharsFromTo(id, 5, 8) = <<"w","e","b",":">>
                 /\ method_ret = "Plc" <=> CharsFromTo(id, 5, 8) = <<"p","l","c",":">>

C6_Witness ==
    /\ id = <<"d","i","d",":","w","e","b",":","l","o","c","a","l","h","o","s","t">>
    /\ method_ret = "Web"
    /\ identifier_ret.str = <<"l","o","c","a","l","h","o","s","t">>

\* C7: method() on a Did obtained through try_create returns Web or Plc; its
\* fallback arm is never taken.
C7_MethodFallbackUnreachable ==
    /\ method_ret \in {"None", "Web", "Plc"}
    /\ pc = "aborted" => result.kind = "Panic"

C7_Witness ==
    /\ method_ret = "Plc"
    /\ pc = "returned"

\* C8: a candidate that passes the length, prefix and method checks, has
\* only allowed body chars and ends in ':' is rejected with
\* InvalidIdentifier carrying the body, while ':' before the last body
\* position is accepted.
C8_TrailingColon ==
    (Called /\ LengthOk(id) /\ PrefixOk(id) /\ MethodOk(id) /\ BodyCharsOk(id))
        => /\ id[Len(id)] = ":"
                => result = Err("InvalidIdentifier", CharsFrom(id, 9))
           /\ id[Len(id)] # ":" => result.kind = "Ok"

C8_Witness ==
    /\ id = <<"d","i","d",":","w","e","b",":","a","b","c",":">>
    /\ result.kind = "InvalidIdentifier"
    /\ result.found = <<"a","b","c",":">>

\* C9 (as stated): InvalidPrefix carries the first 4 chars of the input,
\* InvalidMethod chars 5-8, InvalidIdentifier the chars from the 9th on,
\* TooShort nothing.
C9_ErrorPayloads ==
    /\ result.kind = "InvalidPrefix" => result.found = CharsFromTo(id, 1, 4)
    /\ result.kind = "InvalidMethod" => result.found = CharsFromTo(id, 5, 8)
    /\ result.kind = "InvalidIdentifier" => result.found = CharsFrom(id, 9)
    /\ result.kind = "TooShort" => result.found = <<>>

\* C10: try_create returns Ok exactly for the strings of the grammar.
C10_AcceptsExactlyGrammar ==
    Called => (result.kind = "Ok" <=> WellFormed(id))

C10_Witness ==
    /\ result.kind = "Ok"
    /\ WellFormed(id)
    /\ Len(id) = 9 + MaxBody - 1
    /\ \E i \in 9..Len(id) : id[i] \in {".", "_", "-", ":"}

====
